---- MODULE Spec2Model ----
(***************************************************************************)
(* Model of src/main.py: the UnionFind structure (find with its path       *)
(* compression loop, union by rank), the Graph container, and kruskal().   *)
(*                                                                         *)
(* Spec    runs kruskal(graph) on a graph drawn from a bounded family.     *)
(* SpecUF  drives one UnionFind(n) with in-range find / union calls and     *)
(*         records every call and every pair that was merged.              *)
(* SpecUFDeep  is the same machine on more elements; it records only the   *)
(*         finds that rewrote a parent pointer.                            *)
(* SpecUFAny  constructs UnionFind(n) for any small n, negative included,  *)
(*         and calls find / union with indices inside and outside 0..n-1.  *)
(***************************************************************************)
EXTENDS Integers, Sequences, FiniteSets

VARIABLES
    mode,            \* "kruskal": a kruskal(graph) run; "uf", "deep", "any": a UnionFind driven directly
    g_edges,         \* Graph.edges    (list of Edge, insertion order)
    g_vertices,      \* Graph.vertices (set of int)
    in_edges,        \* g_edges as it was when kruskal was called
    in_vertices,     \* g_vertices as it was when kruskal was called
    pc,              \* "call" | "loop" | "done" | "fault" for kruskal;
                     \* "new" | "uf" | "hang" for a driven UnionFind
    fault,           \* "none" | "IndexError:sorted_edges" | "IndexError:parents"
    sorted_edges,    \* kruskal local
    edges_idx,       \* kruskal local
    min_path_edges,  \* kruskal local; MinimumSpanningTree.edges once pc = "done"
    total_weight,    \* kruskal local; MinimumSpanningTree.weight once pc = "done"
    parents,         \* UnionFind.parents, a function on 0..n-1
    ranks,           \* UnionFind.ranks,   a function on 0..n-1
    last,            \* "uf", "any": the last call and what it returned;
                     \* "deep": the last call if it was a find that rewrote a parent pointer
    joined,          \* "uf": the pairs {a,b} for which union(a,b) has returned True
    k                \* "uf", "deep": number of union calls that returned True

vars == << mode, g_edges, g_vertices, in_edges, in_vertices, pc, fault, sorted_edges,
           edges_idx, min_path_edges, total_weight, parents, ranks, last, joined, k >>

\* ---- bounds ------------------------------------------------------------
MaxV == 3          \* exhaustive graphs: vertex indices are drawn from 0..MaxV-1
MaxW == 2          \* edge weights are drawn from 1..MaxW
MaxEdges == 3      \* exhaustive graphs: at most MaxEdges add_edge calls
MaxN == 4          \* SpecUF: UnionFind(n) for n in 0..MaxN
MaxUnions == 4     \* SpecUF: at most MaxUnions union calls return True
MaxDeepN == 6      \* SpecUFDeep: UnionFind(n) for n in 0..MaxDeepN
MaxDeepUnions == 6 \* SpecUFDeep: at most MaxDeepUnions union calls return True

NoRoot == -1       \* stands for "find's first loop does not terminate"

\* ---- Edge, Graph -------------------------------------------------------
Edge(f, t, w) == [from_ |-> f, to |-> t, weight |-> w]

Graph == [edges |-> << >>, vertices |-> {}]

add_edge(g, e) ==
    [edges |-> Append(g.edges, e), vertices |-> g.vertices \cup {e.from_, e.to}]

get_vertices_nb(vs) == Cardinality(vs)

RECURSIVE BuildGraph(_)
BuildGraph(es) ==
    IF es = << >> THEN Graph
    ELSE add_edge(BuildGraph(SubSeq(es, 1, Len(es) - 1)), es[Len(es)])

\* ---- UnionFind ---------------------------------------------------------
\* every element starts with parent 0 instead of itself
UnionFind_all_zero(n) == [parents |-> [v \in 0 .. n - 1 |-> 0], ranks |-> [v \in 0 .. n - 1 |-> 1]]

UnionFind(n) == [parents |-> [v \in 0 .. n - 1 |-> v], ranks |-> [v \in 0 .. n - 1 |-> 1]]

InRange(p, v) == v \in DOMAIN p

\* first loop of find: follow parents until a fixed point.  A walk of more
\* steps than there are elements has revisited one and never ends.
RECURSIVE walk(_, _, _)
walk(p, x, fuel) ==
    IF p[x] = x THEN x
    ELSE IF fuel = 0 THEN NoRoot
    ELSE walk(p, p[x], fuel - 1)

find_root(p, v) == walk(p, v, Cardinality(DOMAIN p))

\* second loop of find.  The tuple assignment
\*     vertex, self.parents[vertex] = self.parents[vertex], parent
\* evaluates the right side, then assigns vertex, then stores through the
\* NEW vertex: the slot written is parents[old parents[vertex]].
RECURSIVE compress(_, _, _, _)
compress(p, vertex, parent, fuel) ==
    IF vertex = parent \/ fuel = 0 THEN p
    ELSE LET nxt == p[vertex]
         IN  compress([p EXCEPT ![nxt] = parent], nxt, parent, fuel - 1)

\* compression that makes the queried vertex its own parent
find_parents_self(p, v) ==
    IF find_root(p, v) = NoRoot THEN p ELSE [p EXCEPT ![v] = v]

\* compression that stores the vertex it came from instead of the root
find_parents_swapped(p, v) ==
    IF find_root(p, v) = NoRoot \/ p[v] = v THEN p
    ELSE [p EXCEPT ![p[v]] = v]

find_parents(p, v) ==
    IF find_root(p, v) = NoRoot THEN p
    ELSE compress(p, v, find_root(p, v), Cardinality(DOMAIN p) + 1)

\* union without the early return for parent1 == parent2
union_no_early_return(p, r, vertex1, vertex2) ==
    LET parent1 == find_root(p, vertex1)
        p1      == find_parents(p, vertex1)
        parent2 == find_root(p1, vertex2)
        p2      == find_parents(p1, vertex2)
    IN  IF r[parent1] > r[parent2]
        THEN [parents |-> [p2 EXCEPT ![vertex2] = parent1], ranks |-> r, ret |-> TRUE]
        ELSE IF r[parent1] < r[parent2]
        THEN [parents |-> [p2 EXCEPT ![vertex1] = parent2], ranks |-> r, ret |-> TRUE]
        ELSE [parents |-> [p2 EXCEPT ![vertex2] = parent1],
              ranks   |-> [r EXCEPT ![parent1] = r[parent1] + 1], ret |-> TRUE]

union(p, r, vertex1, vertex2) ==
    LET parent1 == find_root(p, vertex1)
        p1      == find_parents(p, vertex1)
        parent2 == find_root(p1, vertex2)
        p2      == find_parents(p1, vertex2)
    IN  IF parent1 = parent2
        THEN [parents |-> p2, ranks |-> r, ret |-> FALSE]
        ELSE IF r[parent1] > r[parent2]
        THEN [parents |-> [p2 EXCEPT ![vertex2] = parent1], ranks |-> r, ret |-> TRUE]
        ELSE IF r[parent1] < r[parent2]
        THEN [parents |-> [p2 EXCEPT ![vertex1] = parent2], ranks |-> r, ret |-> TRUE]
        ELSE [parents |-> [p2 EXCEPT ![vertex2] = parent1],
              ranks   |-> [r EXCEPT ![parent1] = r[parent1] + 1], ret |-> TRUE]

\* ---- kruskal -----------------------------------------------------------
\* insertion that puts an edge before the equal-weight edges already placed
RECURSIVE insert_by_weight_before_ties(_, _)
insert_by_weight_before_ties(s, e) ==
    IF s = << >> THEN << e >>
    ELSE IF s[Len(s)].weight < e.weight THEN Append(s, e)
    ELSE Append(insert_by_weight_before_ties(SubSeq(s, 1, Len(s) - 1), e), s[Len(s)])

\* sorted(graph.edges, key=lambda e: e.weight): stable, ascending
RECURSIVE insert_by_weight(_, _)
insert_by_weight(s, e) ==
    IF s = << >> THEN << e >>
    ELSE IF s[Len(s)].weight <= e.weight THEN Append(s, e)
    ELSE Append(insert_by_weight(SubSeq(s, 1, Len(s) - 1), e), s[Len(s)])

\* no sort at all: insertion order
sorted_by_weight_unsorted(es) == es

RECURSIVE sorted_by_weight(_)
sorted_by_weight(es) ==
    IF es = << >> THEN << >>
    ELSE insert_by_weight(sorted_by_weight(SubSeq(es, 1, Len(es) - 1)), es[Len(es)])

\* graph.edges.sort(key=...): sorts the caller's list in place
edges_after_sort_in_place(es) == sorted_by_weight(es)

\* what sorted(graph.edges, ...) leaves in graph.edges: sorted() builds a new list
edges_after_sorted(es) == es

\* total_weight = edge.weight
add_weight_assign(total, edge) == edge.weight

\* total_weight += edge.weight
add_weight(total, edge) == total + edge.weight

\* the loop condition without its "- 1"
loop_cond_no_minus_one(len, nb) == len < nb

\* the loop condition as an inequality test
loop_cond_not_equal(len, nb) == len # nb - 1

\* while len(min_path_edges) < graph.get_vertices_nb() - 1
loop_cond(len, nb) == len < nb - 1

\* ---- input graphs --------------------------------------------------------
\* create_graph(): the fixture of main()
create_graph ==
    BuildGraph(<< Edge(0, 1, 4), Edge(0, 2, 4), Edge(1, 2, 2), Edge(1, 0, 4), Edge(2, 0, 4),
                  Edge(2, 1, 2), Edge(2, 3, 3), Edge(2, 5, 2), Edge(2, 4, 4), Edge(3, 2, 3),
                  Edge(3, 4, 3), Edge(4, 2, 4), Edge(4, 3, 3), Edge(5, 2, 2), Edge(5, 4, 3) >>)

\* every list of at most MaxEdges edges over vertices 0..MaxV-1, weights 1..MaxW
\* (self-loops, duplicate and reverse edges, and vertex sets with gaps included)
EdgeUniverse == { Edge(f, t, w) : f \in 0 .. MaxV - 1, t \in 0 .. MaxV - 1, w \in 1 .. MaxW }

SmallEdgeLists == UNION { [1 .. m -> EdgeUniverse] : m \in 0 .. MaxEdges }

\* a five-vertex family: a four-cycle 0-1-3-2-0 with the pendant vertex 4,
\* every edge in either direction and with every weight in 1..MaxW
Skeleton == << <<0, 1>>, <<2, 3>>, <<1, 3>>, <<2, 0>>, <<0, 4>> >>

CycleTailEdgeLists ==
    { [i \in 1 .. Len(Skeleton) |->
          IF flip[i] THEN Edge(Skeleton[i][2], Skeleton[i][1], w[i])
                     ELSE Edge(Skeleton[i][1], Skeleton[i][2], w[i])] :
      flip \in [1 .. Len(Skeleton) -> BOOLEAN], w \in [1 .. Len(Skeleton) -> 1 .. MaxW] }

InputGraphs ==
    { BuildGraph(es) : es \in SmallEdgeLists \cup CycleTailEdgeLists } \cup { create_graph }

\* ---- kruskal(graph) as a state machine -----------------------------------
Init ==
    /\ mode = "kruskal"
    /\ \E g \in InputGraphs :
          /\ g_edges = g.edges
          /\ g_vertices = g.vertices
          /\ in_edges = g.edges
          /\ in_vertices = g.vertices
    /\ pc = "call"
    /\ fault = "none"
    /\ sorted_edges = << >>
    /\ edges_idx = 0
    /\ min_path_edges = << >>
    /\ total_weight = 0
    /\ parents = << >>
    /\ ranks = << >>
    /\ last = [op |-> "none"]
    /\ joined = {}
    /\ k = 0

\* lines 88-93
KruskalCall ==
    /\ mode = "kruskal" /\ pc = "call"
    /\ min_path_edges' = << >>
    /\ edges_idx' = 0
    /\ total_weight' = 0
    /\ sorted_edges' = sorted_by_weight(g_edges)
    /\ g_edges' = edges_after_sorted(g_edges)
    /\ parents' = UnionFind(Cardinality(g_vertices)).parents
    /\ ranks' = UnionFind(Cardinality(g_vertices)).ranks
    /\ pc' = "loop"
    /\ UNCHANGED << mode, g_vertices, in_edges, in_vertices, fault, last, joined, k >>

InLoop ==
    /\ mode = "kruskal" /\ pc = "loop"
    /\ loop_cond(Len(min_path_edges), get_vertices_nb(g_vertices))

\* line 98 with edges_idx past the end of sorted_edges
LoopEdgeIndexFault ==
    /\ InLoop
    /\ edges_idx >= Len(sorted_edges)
    /\ pc' = "fault"
    /\ fault' = "IndexError:sorted_edges"
    /\ UNCHANGED << mode, g_edges, g_vertices, in_edges, in_vertices, sorted_edges, edges_idx,
                    min_path_edges, total_weight, parents, ranks, last, joined, k >>

\* lines 98-101 with an endpoint that is no index of parents
LoopFindFault ==
    /\ InLoop
    /\ edges_idx < Len(sorted_edges)
    /\ LET edge == sorted_edges[edges_idx + 1]
       IN  /\ ~(InRange(parents, edge.from_) /\ InRange(parents, edge.to))
           /\ parents' = IF InRange(parents, edge.from_)
                         THEN find_parents(parents, edge.from_) ELSE parents
    /\ edges_idx' = edges_idx + 1
    /\ pc' = "fault"
    /\ fault' = "IndexError:parents"
    /\ UNCHANGED << mode, g_edges, g_vertices, in_edges, in_vertices, sorted_edges,
                    min_path_edges, total_weight, ranks, last, joined, k >>

\* lines 98-108, parent_f != parent_t
LoopAccept ==
    /\ InLoop
    /\ edges_idx < Len(sorted_edges)
    /\ LET edge == sorted_edges[edges_idx + 1]
       IN  /\ InRange(parents, edge.from_) /\ InRange(parents, edge.to)
           /\ LET parent_f == find_root(parents, edge.from_)
                  p1       == find_parents(parents, edge.from_)
                  parent_t == find_root(p1, edge.to)
                  p2       == find_parents(p1, edge.to)
                  u        == union(p2, ranks, edge.from_, edge.to)
              IN  /\ parent_f # parent_t
                  /\ min_path_edges' = Append(min_path_edges, edge)
                  /\ parents' = u.parents
                  /\ ranks' = u.ranks
                  /\ total_weight' = add_weight(total_weight, edge)
    /\ edges_idx' = edges_idx + 1
    /\ UNCHANGED << mode, g_edges, g_vertices, in_edges, in_vertices, pc, fault, sorted_edges,
                    last, joined, k >>

\* lines 98-105, parent_f == parent_t
LoopSkip ==
    /\ InLoop
    /\ edges_idx < Len(sorted_edges)
    /\ LET edge == sorted_edges[edges_idx + 1]
       IN  /\ InRange(parents, edge.from_) /\ InRange(parents, edge.to)
           /\ LET parent_f == find_root(parents, edge.from_)
                  p1       == find_parents(parents, edge.from_)
                  parent_t == find_root(p1, edge.to)
                  p2       == find_parents(p1, edge.to)
              IN  /\ parent_f = parent_t
                  /\ parents' = p2
    /\ edges_idx' = edges_idx + 1
    /\ UNCHANGED << mode, g_edges, g_vertices, in_edges, in_vertices, pc, fault, sorted_edges,
                    min_path_edges, total_weight, ranks, last, joined, k >>

\* line 110
KruskalReturn ==
    /\ mode = "kruskal" /\ pc = "loop"
    /\ ~loop_cond(Len(min_path_edges), get_vertices_nb(g_vertices))
    /\ pc' = "done"
    /\ UNCHANGED << mode, g_edges, g_vertices, in_edges, in_vertices, fault, sorted_edges,
                    edges_idx, min_path_edges, total_weight, parents, ranks, last, joined, k >>

Next ==
    \/ KruskalCall
    \/ LoopEdgeIndexFault
    \/ LoopFindFault
    \/ LoopAccept
    \/ LoopSkip
    \/ KruskalReturn

Spec == Init /\ [][Next]_vars

\* ---- a UnionFind driven by in-range calls --------------------------------
InitDriver(m, maxn) ==
    /\ mode = m
    /\ g_edges = << >> /\ g_vertices = {} /\ in_edges = << >> /\ in_vertices = {}
    /\ pc = "uf"
    /\ fault = "none"
    /\ sorted_edges = << >>
    /\ edges_idx = 0
    /\ min_path_edges = << >>
    /\ total_weight = 0
    /\ \E n \in 0 .. maxn :
          /\ parents = UnionFind(n).parents
          /\ ranks = UnionFind(n).ranks
    /\ last = [op |-> "new"]
    /\ joined = {}
    /\ k = 0

InitUF == InitDriver("uf", MaxN)

InitUFDeep == InitDriver("deep", MaxDeepN)

UnionCap == IF mode = "uf" THEN MaxUnions ELSE MaxDeepUnions

\* find(v), 0 <= v < n
FindCall(v) ==
    /\ mode \in {"uf", "deep"} /\ pc = "uf"
    /\ InRange(parents, v)
    /\ IF find_root(parents, v) = NoRoot
       THEN /\ pc' = "hang"
            /\ UNCHANGED << parents, last >>
       ELSE /\ parents' = find_parents(parents, v)
            /\ last' = IF mode = "uf" \/ find_parents(parents, v) # parents
                       THEN [op |-> "find", a |-> v, ret |-> find_root(parents, v)]
                       ELSE [op |-> "other"]
            /\ pc' = pc
    /\ UNCHANGED << mode, g_edges, g_vertices, in_edges, in_vertices, fault, sorted_edges,
                    edges_idx, min_path_edges, total_weight, ranks, joined, k >>

\* union(a, b), 0 <= a, b < n
UnionCall(a, b) ==
    /\ mode \in {"uf", "deep"} /\ pc = "uf"
    /\ InRange(parents, a) /\ InRange(parents, b)
    /\ IF find_root(parents, a) = NoRoot \/ find_root(find_parents(parents, a), b) = NoRoot
       THEN /\ pc' = "hang"
            /\ UNCHANGED << parents, ranks, last, joined, k >>
       ELSE LET u == union(parents, ranks, a, b)
            IN  /\ u.ret => k < UnionCap
                /\ parents' = u.parents
                /\ ranks' = u.ranks
                /\ last' = IF mode = "uf"
                           THEN [op |-> "union", a |-> a, b |-> b, ret |-> u.ret]
                           ELSE [op |-> "other"]
                /\ joined' = IF u.ret /\ mode = "uf" THEN joined \cup {{a, b}} ELSE joined
                /\ k' = IF u.ret THEN k + 1 ELSE k
                /\ pc' = pc
    /\ UNCHANGED << mode, g_edges, g_vertices, in_edges, in_vertices, fault, sorted_edges,
                    edges_idx, min_path_edges, total_weight >>

NextUF ==
    \/ \E v \in DOMAIN parents : FindCall(v)
    \/ \E a \in DOMAIN parents, b \in DOMAIN parents : UnionCall(a, b)

SpecUF == InitUF /\ [][NextUF]_vars

SpecUFDeep == InitUFDeep /\ [][NextUF]_vars

\* ---- a UnionFind constructed and called with any integers ----------------
\* list[i]: slot i for 0 <= i < n, slot n + i for -n <= i < 0, IndexError otherwise
py_slot(p, i) == IF i < 0 THEN i + Cardinality(DOMAIN p) ELSE i

py_valid(p, i) == py_slot(p, i) \in DOMAIN p

\* find(v) for any integer v.  For -n <= v < 0 the first loop sees
\* parents[v] != v (the stored values are never negative) and walks on from
\* parents[v]; the second loop stores the root through parents[v] first.
find_any(p, v) ==
    IF ~py_valid(p, v) THEN [parents |-> p, err |-> TRUE]
    ELSE IF v >= 0
    THEN [parents |-> find_parents(p, v), ret |-> find_root(p, v), err |-> FALSE]
    ELSE LET nxt  == p[py_slot(p, v)]
             root == find_root(p, nxt)
         IN  [parents |-> compress([p EXCEPT ![nxt] = root], nxt, root,
                                   Cardinality(DOMAIN p) + 1),
              ret |-> root, err |-> FALSE]

\* union(vertex1, vertex2) for any integers
union_any(p, r, vertex1, vertex2) ==
    LET f1 == find_any(p, vertex1)
        f2 == find_any(f1.parents, vertex2)
    IN  IF f1.err THEN [parents |-> p, ranks |-> r, err |-> TRUE]
        ELSE IF f2.err THEN [parents |-> f1.parents, ranks |-> r, err |-> TRUE]
        ELSE LET parent1 == f1.ret
                 parent2 == f2.ret
                 p2      == f2.parents
                 s1      == py_slot(p, vertex1)
                 s2      == py_slot(p, vertex2)
             IN  IF parent1 = parent2
                 THEN [parents |-> p2, ranks |-> r, ret |-> FALSE, err |-> FALSE]
                 ELSE IF r[parent1] > r[parent2]
                 THEN [parents |-> [p2 EXCEPT ![s2] = parent1], ranks |-> r,
                       ret |-> TRUE, err |-> FALSE]
                 ELSE IF r[parent1] < r[parent2]
                 THEN [parents |-> [p2 EXCEPT ![s1] = parent2], ranks |-> r,
                       ret |-> TRUE, err |-> FALSE]
                 ELSE [parents |-> [p2 EXCEPT ![s2] = parent1],
                       ranks   |-> [r EXCEPT ![parent1] = r[parent1] + 1],
                       ret |-> TRUE, err |-> FALSE]

\* the indices tried on a structure p: two beyond each end of 0..n-1
AnyIndices(p) == (0 - Cardinality(DOMAIN p)) - 1 .. Cardinality(DOMAIN p)

InitUFAny ==
    /\ mode = "any"
    /\ g_edges = << >> /\ g_vertices = {} /\ in_edges = << >> /\ in_vertices = {}
    /\ pc = "new"
    /\ fault = "none"
    /\ sorted_edges = << >>
    /\ edges_idx = 0
    /\ min_path_edges = << >>
    /\ total_weight = 0
    /\ parents = << >>
    /\ ranks = << >>
    /\ last = [op |-> "none"]
    /\ joined = {}
    /\ k = 0

\* UnionFind(n) for any integer n: range(n) is empty for n <= 0
Construct(n) ==
    /\ mode = "any" /\ pc = "new"
    /\ parents' = UnionFind(n).parents
    /\ ranks' = UnionFind(n).ranks
    /\ last' = [op |-> "new", n |-> n, err |-> FALSE]
    /\ pc' = "uf"
    /\ UNCHANGED << mode, g_edges, g_vertices, in_edges, in_vertices, fault, sorted_edges,
                    edges_idx, min_path_edges, total_weight, joined, k >>

\* find(v), any integer v
FindCallAny(v) ==
    /\ mode = "any" /\ pc = "uf"
    /\ LET f == find_any(parents, v)
       IN  /\ parents' = f.parents
           /\ last' = IF f.err THEN [op |-> "find", a |-> v, err |-> TRUE]
                      ELSE [op |-> "find", a |-> v, err |-> FALSE, ret |-> f.ret]
    /\ UNCHANGED << mode, g_edges, g_vertices, in_edges, in_vertices, pc, fault, sorted_edges,
                    edges_idx, min_path_edges, total_weight, ranks, joined, k >>

\* union(a, b), any integers a, b
UnionCallAny(a, b) ==
    /\ mode = "any" /\ pc = "uf"
    /\ LET u == union_any(parents, ranks, a, b)
       IN  /\ (~u.err /\ u.ret) => k < MaxUnions
           /\ parents' = u.parents
           /\ ranks' = u.ranks
           /\ last' = IF u.err THEN [op |-> "union", a |-> a, b |-> b, err |-> TRUE]
                      ELSE [op |-> "union", a |-> a, b |-> b, err |-> FALSE, ret |-> u.ret]
           /\ k' = IF ~u.err /\ u.ret THEN k + 1 ELSE k
    /\ UNCHANGED << mode, g_edges, g_vertices, in_edges, in_vertices, pc, fault, sorted_edges,
                    edges_idx, min_path_edges, total_weight, joined >>

NextUFAny ==
    \/ \E n \in (0 - MaxN) .. MaxN : Construct(n)
    \/ \E v \in AnyIndices(parents) : FindCallAny(v)
    \/ \E a \in AnyIndices(parents), b \in AnyIndices(parents) : UnionCallAny(a, b)

SpecUFAny == InitUFAny /\ [][NextUFAny]_vars

\* ---- reference notions for the properties --------------------------------
\* vertices reachable from the set S over the undirected pairs E
RECURSIVE Reach(_, _)
Reach(S, E) ==
    LET T == S \cup { e[2] : e \in { x \in E : x[1] \in S } }
                \cup { e[1] : e \in { x \in E : x[2] \in S } }
    IN  IF T = S THEN S ELSE Reach(T, E)

Pairs(es, I) == { << es[i].from_, es[i].to >> : i \in I }

ConnectedBy(es, I, u, v) == v \in Reach({u}, Pairs(es, I))

\* the vertex indices are exactly 0..n-1
DenseVertices == g_vertices = 0 .. Cardinality(g_vertices) - 1

\* the graph has a vertex and all its vertices are in one component
ConnectedGraph ==
    /\ g_vertices # {}
    /\ \A u \in g_vertices : Reach({u}, Pairs(g_edges, DOMAIN g_edges)) = g_vertices

\* more than one connected component
DisconnectedGraph ==
    \E u \in g_vertices : Reach({u}, Pairs(g_edges, DOMAIN g_edges)) # g_vertices

RECURSIVE SumWeights(_, _)
SumWeights(es, I) ==
    IF I = {} THEN 0
    ELSE LET i == CHOOSE x \in I : TRUE IN es[i].weight + SumWeights(es, I \ {i})

\* all spanning trees of the graph, as sets of positions in graph.edges
SpanningTrees ==
    { I \in SUBSET DOMAIN g_edges :
        /\ Cardinality(I) = Cardinality(g_vertices) - 1
        /\ \A u \in g_vertices : Reach({u}, Pairs(g_edges, I)) = g_vertices }

MinSpanningWeight ==
    LET ws == { SumWeights(g_edges, I) : I \in SpanningTrees }
    IN  CHOOSE w \in ws : \A x \in ws : w <= x

Roots(p) == { v \in DOMAIN p : p[v] = v }

\* ---- properties ----------------------------------------------------------

\* C1: on a connected graph with vertex indices 0..n-1 the weight kruskal
\* returns is the minimum weight over all spanning trees of the graph.
C1_Optimal ==
    (mode = "kruskal" /\ pc = "done" /\ DenseVertices /\ ConnectedGraph)
        => total_weight = MinSpanningWeight

\* C2: the returned edge list is acyclic: each returned edge joins two
\* vertices that the edges returned before it do not connect.
C2_Acyclic ==
    (mode = "kruskal" /\ pc = "done")
        => \A i \in DOMAIN min_path_edges :
              ~ConnectedBy(min_path_edges, 1 .. i - 1,
                           min_path_edges[i].from_, min_path_edges[i].to)

C4_UnionsPermanent ==
    (mode = "uf" /\ pc = "uf")
        => \A pr \in joined : \A a \in pr, b \in pr :
              find_root(parents, a) = find_root(parents, b)

\* C5: after k True-returning unions on UnionFind(n) there are n - k roots.
C5_RootCount ==
    (mode = "uf" /\ pc = "uf")
        => Cardinality(Roots(parents)) = Cardinality(DOMAIN parents) - k

C7_GraphNotConnected ==
    (mode = "kruskal" /\ DenseVertices /\ DisconnectedGraph)
        => /\ pc # "done"
           /\ pc = "fault" => fault = "GraphNotConnected"

\* C8: on the graph without vertices and edges kruskal returns an empty edge
\* list and weight 0, with no fault and no loop iteration.
C8_EmptyGraph ==
    (mode = "kruskal" /\ in_edges = << >> /\ pc # "call")
        => /\ pc \in {"loop", "done"}
           /\ fault = "none"
           /\ edges_idx = 0
           /\ min_path_edges = << >>
           /\ total_weight = 0
           /\ ~ENABLED LoopEdgeIndexFault

C8_Witness ==
    /\ mode = "kruskal" /\ pc = "done" /\ in_edges = << >> /\ g_vertices = {}
    /\ min_path_edges = << >> /\ total_weight = 0

\* C9: in every reachable state, a find(v) call changes the root of no w
\* (w = v included), so a repeated find(v) returns what the first returned.
C9_FindPure ==
    (mode \in {"uf", "deep"} /\ pc = "uf")
        => \A v \in DOMAIN parents :
              LET after == find_parents(parents, v)
              IN  /\ DOMAIN after = DOMAIN parents
                  /\ \A w \in DOMAIN parents : find_root(after, w) = find_root(parents, w)

\* a find that rewrote a parent pointer has returned
C9_Witness ==
    /\ mode = "deep" /\ last.op = "find"
    /\ parents[last.a] # last.ret
    /\ parents[parents[last.a]] = last.ret

\* C10: parents stays inside 0..n-1 and has no cycle but the self-loops of
\* the roots; every find(v) ends, at a root.
C10_Forest ==
    mode \in {"uf", "deep"}
        => /\ pc # "hang"
           /\ \A v \in DOMAIN parents :
                 /\ parents[v] \in DOMAIN parents
                 /\ find_root(parents, v) # NoRoot
                 /\ parents[find_root(parents, v)] = find_root(parents, v)

\* a tree with a vertex three levels below its root has been built
C10_Witness ==
    /\ mode = "deep" /\ pc = "uf"
    /\ \E v \in DOMAIN parents : parents[parents[parents[v]]] # parents[parents[v]]

\* C13: kruskal only reads the graph: at every point of the call, and after
\* it returned or faulted, graph.edges and graph.vertices are as they were.
C13_GraphUnchanged ==
    mode = "kruskal" => g_edges = in_edges /\ g_vertices = in_vertices

\* kruskal has ended on a graph whose sorted edge list differs from graph.edges
C13_Witness ==
    /\ mode = "kruskal" /\ pc \in {"done", "fault"}
    /\ sorted_edges # in_edges
    /\ g_edges = in_edges

\* C14: at every point of the loop and in the result, total_weight is the
\* sum of the weights of the edges accepted so far.
C14_WeightIsSum ==
    mode = "kruskal"
        => total_weight = SumWeights(min_path_edges, DOMAIN min_path_edges)

\* a result with several edges of different weights
C14_Witness ==
    /\ mode = "kruskal" /\ pc = "done"
    /\ Len(min_path_edges) >= 3
    /\ min_path_edges[1].weight # min_path_edges[Len(min_path_edges)].weight
    /\ total_weight > Len(min_path_edges)

\* C18: kruskal skips an edge only if it would close a cycle: in every loop
\* state two vertices with the same find result are connected through the
\* accepted edges, so the edge about to be skipped joins connected vertices.
C18_SkipOnlyCycles ==
    (mode = "kruskal" /\ pc \in {"loop", "done", "fault"})
        => /\ \A u \in DOMAIN parents, v \in DOMAIN parents :
                 find_root(parents, u) = find_root(parents, v)
                    => ConnectedBy(min_path_edges, DOMAIN min_path_edges, u, v)
           /\ ENABLED LoopSkip
                 => ConnectedBy(min_path_edges, DOMAIN min_path_edges,
                                sorted_edges[edges_idx + 1].from_, sorted_edges[edges_idx + 1].to)

\* a run on five vertices that skipped an edge between two distinct vertices
C18_Witness ==
    /\ mode = "kruskal" /\ pc = "done"
    /\ Len(min_path_edges) = 4
    /\ \E i \in 1 .. edges_idx :
          /\ sorted_edges[i].from_ # sorted_edges[i].to
          /\ \A j \in DOMAIN min_path_edges : min_path_edges[j] # sorted_edges[i]

\* the edges of es with weight w, in the order of es
RECURSIVE OfWeight(_, _)
OfWeight(es, w) ==
    IF es = << >> THEN << >>
    ELSE IF es[1].weight = w THEN << es[1] >> \o OfWeight(Tail(es), w)
    ELSE OfWeight(Tail(es), w)

\* reference for a stable ascending sort: weight class after weight class
RECURSIVE ByWeightClasses(_, _)
ByWeightClasses(es, ws) ==
    IF ws = {} THEN << >>
    ELSE LET w == CHOOSE x \in ws : \A y \in ws : x <= y
         IN  OfWeight(es, w) \o ByWeightClasses(es, ws \ {w})

StableSorted(es) == ByWeightClasses(es, { es[i].weight : i \in DOMAIN es })

\* a is b with some elements left out
RECURSIVE IsSubseq(_, _)
IsSubseq(a, b) ==
    IF a = << >> THEN TRUE
    ELSE IF b = << >> THEN FALSE
    ELSE IF a[1] = b[1] THEN IsSubseq(Tail(a), Tail(b))
    ELSE IsSubseq(a, Tail(b))

\* C19: the edges are examined in ascending weight with ties in insertion
\* order, each at most once, none after n-1 are accepted; the accepted list
\* is a subsequence of the examined prefix of the stable weight-sort.
C19_ScanOrder ==
    (mode = "kruskal" /\ pc # "call")
        => /\ sorted_edges = StableSorted(in_edges)
           /\ \A i \in 1 .. Len(sorted_edges) - 1 :
                 sorted_edges[i].weight <= sorted_edges[i + 1].weight
           /\ edges_idx \in 0 .. Len(sorted_edges)
           /\ IsSubseq(min_path_edges, SubSeq(sorted_edges, 1, edges_idx))
           /\ \A i \in 1 .. Len(min_path_edges) - 1 :
                 min_path_edges[i].weight <= min_path_edges[i + 1].weight
           /\ (Len(min_path_edges) >= 1
                 /\ Len(min_path_edges) = get_vertices_nb(g_vertices) - 1)
                 => sorted_edges[edges_idx] = min_path_edges[Len(min_path_edges)]
           /\ Len(min_path_edges) <= edges_idx

\* a run that reordered tied and untied edges, skipped one and stopped early
C19_Witness ==
    /\ mode = "kruskal" /\ pc = "done"
    /\ sorted_edges # in_edges
    /\ \E i \in 1 .. Len(sorted_edges) - 1 :
          /\ sorted_edges[i].weight = sorted_edges[i + 1].weight
          /\ sorted_edges[i] # sorted_edges[i + 1]
    /\ Len(min_path_edges) >= 2
    /\ Len(min_path_edges) < edges_idx
    /\ edges_idx < Len(sorted_edges)

\* C15: union(a,b) returns False exactly when find(a) = find(b) held before
\* the call, and after a True return find(a) = find(b) holds.
C15_UnionResult ==
    (mode = "uf" /\ pc = "uf")
        => /\ \A a \in DOMAIN parents, b \in DOMAIN parents :
                 LET u == union(parents, ranks, a, b)
                 IN  /\ (u.ret = FALSE) <=> (find_root(parents, a) = find_root(parents, b))
                     /\ u.ret => find_root(u.parents, a) = find_root(u.parents, b)
           /\ (last.op = "union" /\ last.ret)
                 => find_root(parents, last.a) = find_root(parents, last.b)

\* a union has returned True after an earlier union had split a set
C15_Witness ==
    /\ mode = "uf" /\ pc = "uf"
    /\ last.op = "union" /\ last.ret
    /\ Cardinality(Roots(parents)) > Cardinality(DOMAIN parents) - k
    /\ find_root(parents, last.a) = find_root(parents, last.b)

\* the vertices on the parent path from v up to and including its root
RECURSIVE PathTo(_, _)
PathTo(p, v) == IF p[v] = v THEN {v} ELSE {v} \cup PathTo(p, p[v])

\* C16: a True-returning union(a,b) with roots ra, rb changes, beyond what
\* its two finds changed, only a root's pointer: parents[rb] becomes ra if
\* ranks[ra] >= ranks[rb], else parents[ra] becomes rb; ranks changes only on
\* equal ranks, where ranks[ra] grows by 1.
C16_MergeOnRoots ==
    [][ (last'.op = "union" /\ last'.ret /\ k' = k + 1)
          => LET a   == last'.a
                 b   == last'.b
                 ra  == find_root(parents, a)
                 rb  == find_root(parents, b)
                 pre == find_parents(find_parents(parents, a), b)
             IN  /\ parents' = IF ranks[ra] >= ranks[rb] THEN [pre EXCEPT ![rb] = ra]
                                                         ELSE [pre EXCEPT ![ra] = rb]
                 /\ ranks' = IF ranks[ra] = ranks[rb]
                             THEN [ranks EXCEPT ![ra] = ranks[ra] + 1] ELSE ranks ]_vars

\* C17: after find(v) returned r every vertex that was on the path from v to
\* r, v included, has parent r, and no pointer off that path has changed.
C17_FullCompression ==
    [][ last'.op = "find"
          => LET path == PathTo(parents, last'.a)
             IN  /\ \A x \in path : parents'[x] = last'.ret
                 /\ \A x \in DOMAIN parents \ path : parents'[x] = parents[x] ]_vars

\* C11: a find or union call with an index outside 0..n-1, negative ones
\* included, ends in an index error and leaves parents and ranks unchanged.
C11_IndexOutOfRange ==
    [][ (mode = "any" /\ last'.op \in {"find", "union"}
           /\ (last'.a \notin DOMAIN parents
                 \/ (last'.op = "union" /\ last'.b \notin DOMAIN parents)))
          => /\ last'.err
             /\ parents' = parents
             /\ ranks' = ranks ]_vars

\* C12: UnionFind(n) with n < 0 fails with an error instead of producing a
\* structure; UnionFind(0) succeeds with an empty structure.
C12_NegativeSize ==
    (mode = "any" /\ last.op = "new")
        => /\ last.n < 0 => last.err
           /\ last.n = 0 => (~last.err /\ parents = << >> /\ ranks = << >>)

====
